---- MODULE Spec2Model ----
(***************************************************************************)
(* Verification & Trust pipeline of TALANTA-AI.                            *)
(*                                                                         *)
(* The model covers the Celery task process_verification                   *)
(* (backend/app/tasks/ocr_tasks.py), the field parsers of OCRService       *)
(* (backend/app/services/ocr_service.py) and the graph operations of       *)
(* GraphService (backend/app/services/graph_service.py).                   *)
(*                                                                         *)
(* Text is a sequence of one-character strings; the regular expressions    *)
(* of the parsers are evaluated character by character.                    *)
(***************************************************************************)
EXTENDS Integers, Sequences, FiniteSets, Bags, TLC

\* An optional value (a nullable column, a key a dict may lack): None or Some(x)
None == <<>>
Some(x) == <<x>>

Min(a, b) == IF a <= b THEN a ELSE b

----------------------------------------------------------------------------
(* Characters and character classes of Python's re module.                 *)

UpperSeq == <<"A","B","C","D","E","F","G","H","I","J","K","L","M","N","O","P","Q","R","S","T","U","V","W","X","Y","Z">>
LowerSeq == <<"a","b","c","d","e","f","g","h","i","j","k","l","m","n","o","p","q","r","s","t","u","v","w","x","y","z">>

Upper  == {UpperSeq[i] : i \in 1..Len(UpperSeq)}
Lower  == {LowerSeq[i] : i \in 1..Len(LowerSeq)}
Digits == {"0","1","2","3","4","5","6","7","8","9"}
Space  == {" "}
\* \w of the re module
WordChars == Upper \cup Lower \cup Digits \cup {"_"}

\* str.upper() and str.lower() on one character
UpperChar(c) == IF c \in Lower THEN UpperSeq[CHOOSE i \in 1..Len(LowerSeq) : LowerSeq[i] = c] ELSE c
LowerChar(c) == IF c \in Upper THEN LowerSeq[CHOOSE i \in 1..Len(UpperSeq) : UpperSeq[i] = c] ELSE c

\* str.upper()
ToUpper(t) == [i \in 1..Len(t) |-> UpperChar(t[i])]

\* str.title(): a letter that follows a letter is lowered, any other letter is raised
Title(t) == [i \in 1..Len(t) |->
               IF i > 1 /\ t[i-1] \in (Upper \cup Lower) THEN LowerChar(t[i]) ELSE UpperChar(t[i])]

\* str.strip() for text whose only whitespace is the blank
RECURSIVE StripLeft(_)
StripLeft(t) == IF t # <<>> /\ Head(t) \in Space THEN StripLeft(Tail(t)) ELSE t
RECURSIVE StripRight(_)
StripRight(t) == IF t # <<>> /\ t[Len(t)] \in Space THEN StripRight(SubSeq(t, 1, Len(t) - 1)) ELSE t
Strip(t) == StripRight(StripLeft(t))

\* " ".join(fragments)
RECURSIVE JoinText(_)
JoinText(frags) ==
    IF frags = <<>> THEN <<>>
    ELSE IF Len(frags) = 1 THEN frags[1]
    ELSE frags[1] \o <<" ">> \o JoinText(Tail(frags))

\* the last position j >= i - 1 with t[i..j] inside class S (a greedy S*)
RECURSIVE RunEnd(_, _, _)
RunEnd(t, i, S) == IF i <= Len(t) /\ t[i] \in S THEN RunEnd(t, i + 1, S) ELSE i - 1

\* the literal w occurs in t at position i
HasAt(t, i, w) == i + Len(w) - 1 <= Len(t) /\ \A k \in 1..Len(w) : t[i + k - 1] = w[k]

\* \b before a word character at i, and after a word character at j
BoundaryBefore(t, i) == i = 1 \/ t[i-1] \notin WordChars
BoundaryAfter(t, j)  == j = Len(t) \/ t[j+1] \notin WordChars

\* re.search: the leftmost position at which a pattern matches, 0 if none
FirstPos(t, Matches(_, _)) ==
    LET P == {i \in 1..Len(t) : Matches(t, i)}
    IN  IF P = {} THEN 0 ELSE CHOOSE i \in P : \A k \in P : i <= k

----------------------------------------------------------------------------
(* OCRService.parse_kenyan_id                                              *)

\* r'\b(\d{8})\b'
IdNumberAt(t, i) ==
    /\ i + 7 <= Len(t)
    /\ \A k \in 0..7 : t[i + k] \in Digits
    /\ BoundaryBefore(t, i)
    /\ BoundaryAfter(t, i + 7)

ParseIdNumber(t) ==
    LET i == FirstPos(t, IdNumberAt)
    IN  IF i = 0 THEN None ELSE Some(SubSeq(t, i, i + 7))

\* r'\b([A-Z][A-Z\s]+[A-Z])\b': the ends j at which a match starting at i may stop
NameEnds(t, i) ==
    IF i <= Len(t) /\ t[i] \in Upper /\ BoundaryBefore(t, i)
    THEN {j \in (i + 2)..RunEnd(t, i, Upper \cup Space) : t[j] \in Upper /\ BoundaryAfter(t, j)}
    ELSE {}

\* the greedy match takes the last such end
NameEnd(t, i) == CHOOSE j \in NameEnds(t, i) : \A k \in NameEnds(t, i) : k <= j

\* re.findall: the non-overlapping matches from left to right
RECURSIVE NameMatches(_, _)
NameMatches(t, i) ==
    IF i > Len(t) THEN <<>>
    ELSE IF NameEnds(t, i) = {} THEN NameMatches(t, i + 1)
    ELSE <<SubSeq(t, i, NameEnd(t, i))>> \o NameMatches(t, NameEnd(t, i) + 1)

\* max(matches, key=len): the first of the longest matches
LongestFirst(ms) ==
    LET k == CHOOSE i \in 1..Len(ms) :
                 /\ \A m \in 1..Len(ms) : Len(ms[m]) <= Len(ms[i])
                 /\ \A m \in 1..(i-1) : Len(ms[m]) < Len(ms[i])
    IN  ms[k]

ParseFullName(t) ==
    LET ms == NameMatches(t, 1)
    IN  IF ms = <<>> THEN None ELSE Some(Strip(LongestFirst(ms)))

parse_kenyan_id(ocr_results) ==
    LET all_text == JoinText(ocr_results)
    IN  [id_number |-> ParseIdNumber(all_text), full_name |-> ParseFullName(all_text)]

----------------------------------------------------------------------------
(* OCRService.parse_certificate                                            *)

W_SERIAL      == <<"S","E","R","I","A","L">>
W_SER         == <<"S","E","R">>
W_NO          == <<"N","O">>
W_CERTIFICATE == <<"C","E","R","T","I","F","I","C","A","T","E">>
W_DIPLOMA     == <<"D","I","P","L","O","M","A">>
W_IN          == <<"I","N">>
W_OF          == <<"O","F">>
W_CERTDASH    == <<"C","E","R","T","-">>

\* [A-Z0-9/-]
SerialClass == Upper \cup Digits \cup {"/", "-"}

\* r'(?:SERIAL|SER|NO)[:\s]*([A-Z0-9/-]+)' with the label w at i: the group's
\* first and last position, <<0, 0>> if the label does not lead to a match
LabelGroup(t, i, w) ==
    IF ~HasAt(t, i, w) THEN <<0, 0>>
    ELSE LET g == RunEnd(t, i + Len(w), {":"} \cup Space) + 1
             e == RunEnd(t, g, SerialClass)
         IN  IF e >= g THEN <<g, e>> ELSE <<0, 0>>

\* the alternatives are tried in the order written
LabelledSerialGroup(t, i) ==
    IF LabelGroup(t, i, W_SERIAL) # <<0, 0>> THEN LabelGroup(t, i, W_SERIAL)
    ELSE IF LabelGroup(t, i, W_SER) # <<0, 0>> THEN LabelGroup(t, i, W_SER)
    ELSE LabelGroup(t, i, W_NO)

LabelledSerialAt(t, i) == LabelledSerialGroup(t, i) # <<0, 0>>

\* r'\b([A-Z]{2,4}/\d{2,4}/\d{4})\b': the last position of a match starting at i, 0 if none
BoardSerialEnd(t, i) ==
    LET a == RunEnd(t, i, Upper)
        d == RunEnd(t, a + 2, Digits)
    IN  IF /\ i <= Len(t) /\ BoundaryBefore(t, i)
           /\ a - i + 1 \in 2..4
           /\ a + 1 <= Len(t) /\ t[a + 1] = "/"
           /\ d - (a + 2) + 1 \in 2..4
           /\ d + 1 <= Len(t) /\ t[d + 1] = "/"
           /\ RunEnd(t, d + 2, Digits) >= d + 5
           /\ BoundaryAfter(t, d + 5)
        THEN d + 5 ELSE 0

BoardSerialAt(t, i) == BoardSerialEnd(t, i) # 0

\* r'\b(CERT-\d+)\b': the last position of a match starting at i, 0 if none
CertSerialEnd(t, i) ==
    LET e == RunEnd(t, i + Len(W_CERTDASH), Digits)
    IN  IF /\ HasAt(t, i, W_CERTDASH) /\ BoundaryBefore(t, i)
           /\ e >= i + Len(W_CERTDASH)
           /\ BoundaryAfter(t, e)
        THEN e ELSE 0

CertSerialAt(t, i) == CertSerialEnd(t, i) # 0

\* the first pattern of serial_patterns that matches all_text.upper() wins
ParseSerial(u) ==
    LET p1 == FirstPos(u, LabelledSerialAt)
        p2 == FirstPos(u, BoardSerialAt)
        p3 == FirstPos(u, CertSerialAt)
    IN  IF p1 # 0 THEN Some(SubSeq(u, LabelledSerialGroup(u, p1)[1], LabelledSerialGroup(u, p1)[2]))
        ELSE IF p2 # 0 THEN Some(SubSeq(u, p2, BoardSerialEnd(u, p2)))
        ELSE IF p3 # 0 THEN Some(SubSeq(u, p3, CertSerialEnd(u, p3)))
        ELSE None

\* r'(?:CERTIFICATE|DIPLOMA)\s+(?:IN|OF)\s+([A-Z\s]+)' with the head w at i: the
\* first blank after IN/OF and the end of the run of [A-Z\s] behind it; the \s+
\* gives blanks back to the group, which strip() then removes again.
\* <<0, 0>> if there is no match with this head.
SkillGroupWith(t, i, w) ==
    IF ~HasAt(t, i, w) THEN <<0, 0>>
    ELSE LET s == i + Len(w)
             k == RunEnd(t, s, Space) + 1
             b == k + 2
             e == RunEnd(t, b, Upper \cup Space)
         IN  IF /\ k > s
                /\ (HasAt(t, k, W_IN) \/ HasAt(t, k, W_OF))
                /\ b <= Len(t) /\ t[b] \in Space
                /\ e >= b + 1
             THEN <<b, e>> ELSE <<0, 0>>

SkillGroup(t, i) ==
    IF SkillGroupWith(t, i, W_CERTIFICATE) # <<0, 0>> THEN SkillGroupWith(t, i, W_CERTIFICATE)
    ELSE SkillGroupWith(t, i, W_DIPLOMA)

SkillAt(t, i) == SkillGroup(t, i) # <<0, 0>>

\* skill_match.group(1).strip().title()
ParseSkill(u) ==
    LET p == FirstPos(u, SkillAt)
    IN  IF p = 0 THEN None
        ELSE Some(Title(Strip(SubSeq(u, SkillGroup(u, p)[1], SkillGroup(u, p)[2]))))

parse_certificate(ocr_results) ==
    LET u == ToUpper(JoinText(ocr_results))
    IN  [serial |-> ParseSerial(u), skill |-> ParseSkill(u)]

\* Python truthiness of an optional string: neither None nor ""
Truthy(o) == o # None /\ o # Some(<<>>)

----------------------------------------------------------------------------
(* Bounds of the model.                                                    *)

\* verification records uploaded before the workers start
NumRecords == 1
\* worker slots that may hold a delivery of process_verification
NumJobs == 2
\* deliveries of the task message over one behaviour (first deliveries,
\* duplicate deliveries and re-invocations together)
MaxDeliveries == 2

\* records one user has uploaded, where jobs for different records meet
NumUserRecords == 3
\* calls of override_verification over one behaviour
MaxOverrides == 2

\* max_retries of @celery_app.task
MaxRetries == 3
\* the fixed reward and the ceiling of user.trust_score
Reward == 10
MaxTrust == 100

\* OTP login: /login requests, /verify requests, coroutines in flight
MaxLogins == 4
MaxVerifies == 6
NumRequests == 2
\* login sessions whose OTP is tried by /verify requests
NumVerifySessions == 1

\* settings.OTP_MAX_ATTEMPTS, the OTP requests per hour of login
OTP_MAX_ATTEMPTS == 5
MaxOtpRequests == 3

Sessions == 1..MaxLogins
VerifySessions == 1..NumVerifySessions
Requests == 1..NumRequests

\* the phone of the login (normalised by LoginRequest) and another one
PHONE == "+254712345678"
OTHER_PHONE == "+254700000000"
Phones == {PHONE, OTHER_PHONE}

\* generate_otp: the codes the random choice may produce
Otps == {"749302", "000000"}

Records == 1..NumRecords
Jobs    == 1..NumJobs
\* a verification id that matches no row
NoRecord == 0

----------------------------------------------------------------------------
(* Documents: what the extractor reads from the stored bytes.              *)

\* the fixed result of extract_text when no OCR engine is loaded
MockOcrResults == <<<<"J","O","H","N"," ","M","W","A","N","G","I"," ","K","A","R","I","U","K","I">>, <<"I","D",":"," ","1","2","3","4","5","6","7","8">>>>

Documents == <<
    <<<<"I","D",":"," ","1","2","3","4","5","6","7","8"," ","J","O","H","N"," ","M","W","A","N","G","I"," ","K","A","R","I","U","K","I">>>>,
    <<<<"J","A","N","E"," ","A","T","I","E","N","O">>, <<"I","D"," ","1","2","3","4","5","6","7">>>>,
    <<<<"K","N","E","C","/","1","2","3","/","2","0","2","3">>, <<"D","i","p","l","o","m","a"," ","i","n"," ","W","e","l","d","i","n","g">>>>,
    <<<<"D","I","P","L","O","M","A"," ","I","N"," ","W","E","L","D","I","N","G">>>>,
    <<<<"C","E","R","T","I","F","I","C","A","T","E"," ","O","F"," ","H","O","N","O","R">>>>
>>

\* the uploads of the model: document type and stored document
Uploads == {
    [document_type |-> "NATIONAL_ID", doc |-> 1],
    [document_type |-> "NATIONAL_ID", doc |-> 2],
    [document_type |-> "CERTIFICATE", doc |-> 3],
    [document_type |-> "DIPLOMA",     doc |-> 4],
    [document_type |-> "LICENSE",     doc |-> 3],
    [document_type |-> "CERTIFICATE", doc |-> 5]
}

\* names a user may have on file when the pipeline runs
JOHN_KARIUKI == <<"J","o","h","n"," ","K","a","r","i","u","k","i">>
InitialNames == {None, Some(JOHN_KARIUKI)}
\* trust scores a user may hold when the pipeline runs
InitialScores == {0, 95}

\* skills the chat collaborator may claim (entities["skills"])
ClaimSkills == {<<"w","e","l","d","i","n","g">>}

DocIds == 1..Len(Documents)

\* Skill.name values a node of the graph may carry
AllSkills ==
    {Title(s) : s \in ClaimSkills}
        \cup {parse_certificate(Documents[d]).skill[1] :
                d \in {k \in DocIds : parse_certificate(Documents[k]).skill # None}}

----------------------------------------------------------------------------
(* State.                                                                  *)

VARIABLES
    vrec,        \* verifications table: the committed row of each record
    user,        \* users table: the committed row of the records' owner
    graph,       \* graph store: nodes and relationships of that user
    job,         \* worker slots: position and session of each delivery
    delivered,   \* task messages delivered so far
    overrides,   \* calls of the admin endpoint override_verification so far
    validation,  \* the last call of validate_document: arguments and result
    redis,       \* the keys of the OTP login: otp:*, otp_attempts:*, otp_rate:*
    req,         \* requests of /login and /verify in flight, and their replies
    replies      \* what the two endpoints have answered and recorded so far

vars == <<vrec, user, graph, job, delivered, overrides, validation, redis, req, replies>>

\* the state the task process_verification never touches
authState == <<redis, req, replies>>

apiState == <<overrides, validation, authState>>

PENDING    == "PENDING"
PROCESSING == "PROCESSING"
VERIFIED   == "VERIFIED"
REJECTED   == "REJECTED"
Terminal   == {VERIFIED, REJECTED}

NATIONAL_ID == "NATIONAL_ID"
CERTIFICATE == "CERTIFICATE"
DIPLOMA     == "DIPLOMA"
LICENSE     == "LICENSE"
TRANSCRIPT  == "TRANSCRIPT"

S3_FAILED        == "Failed to retrieve document from storage"
SERIAL_NOT_FOUND == "Serial number not found in document"
VALIDATION_FAILED == "Validation failed"

\* Verification(...) as upload_verification_document creates it; the column
\* defaults of the model fill the rest
NewVerification(up) ==
    [document_type     |-> up.document_type,
     doc               |-> up.doc,
     status            |-> PENDING,
     rejection_reason  |-> None,
     trust_score_delta |-> 0,
     ocr_data          |-> None,
     extracted_name    |-> None,
     extracted_serial  |-> None,
     extracted_skill   |-> None,
     verified_by       |-> None]

NewUser(score, name) ==
    [trust_score |-> score, is_verified |-> FALSE, full_name |-> name]

EmptyGraph ==
    [user_node   |-> FALSE,
     skill_nodes |-> {},
     claims      |-> {},
     verified_in |-> [s \in AllSkills |-> 0]]

\* a worker slot that holds no delivery
IdleJob ==
    [pc      |-> "idle",
     rec     |-> NoRecord,
     retries |-> 0,
     v       |-> None,     \* the session's Verification object
     base    |-> None,     \* its attributes as loaded or last committed
     u       |-> None,     \* the session's User object
     ubase   |-> None,
     locked  |-> FALSE,    \* the open transaction has flushed an UPDATE of the row
     rerun   |-> FALSE,    \* the attempt found the row VERIFIED or REJECTED
     credited |-> FALSE,   \* a commit of this delivery has raised user.trust_score
     fresh   |-> FALSE,    \* the delivery found the row PENDING and has made no
                           \* terminal commit so far
     late    |-> FALSE,    \* the delivery found the row PENDING and each failed
                           \* attempt so far failed after the PROCESSING commit
     start   |-> None]     \* the user row when the delivery reached the worker

\* Redis before any login: no key of the OTP flow exists
EmptyRedis ==
    [otp      |-> [s \in Sessions |-> None],   \* otp:{session_id}
     attempts |-> [s \in Sessions |-> None],   \* otp_attempts:{session_id}
     rate     |-> None]                        \* otp_rate:{hash of the phone}

\* a request slot of the API process with no request in it
IdleReq ==
    [op      |-> "none",    \* "login" or "verify"
     pc      |-> "idle",    \* the await the coroutine stands at
     session |-> 0,         \* session_id: generated (login) or sent (verify)
     phone   |-> PHONE,     \* request.phone_number
     otp     |-> None,      \* generated (login) or provided (verify)
     seen    |-> None,      \* request_count (login) or attempts (verify) as read
     late    |-> FALSE]     \* OTP_MAX_ATTEMPTS failures were recorded when it arrived

NoReplies ==
    [logins   |-> 0,                         \* /login requests received
     verifies |-> 0,                         \* /verify requests received
     sessions |-> 0,                         \* session ids generated
     issued   |-> {},                        \* LoginResponse: session ids of the OTPs issued
     tokens   |-> [s \in Sessions |-> 0],    \* TokenResponse per session
     failed   |-> [s \in Sessions |-> 0],    \* failures recorded per session
     last     |-> None]                      \* the last reply: request and HTTP status

NoLogin ==
    /\ redis = EmptyRedis
    /\ req = [q \in Requests |-> IdleReq]
    /\ replies = NoReplies

Init ==
    /\ vrec \in [Records -> {NewVerification(up) : up \in Uploads}]
    /\ user \in {NewUser(t, n) : t \in InitialScores, n \in InitialNames}
    /\ graph = EmptyGraph
    /\ job = [j \in Jobs |-> IdleJob]
    /\ delivered = 0
    /\ overrides = 0
    /\ validation = None
    /\ NoLogin

----------------------------------------------------------------------------
(* The relational session.                                                 *)

\* session.commit() of an object: the UPDATE carries the attributes whose value
\* differs from the loaded one; the other columns keep what the row holds
CommitRow(row, obj, loaded) ==
    [f \in DOMAIN row |-> IF obj[f] # loaded[f] THEN obj[f] ELSE row[f]]

\* no other open transaction holds the row lock of record r
CanWrite(j, r) == \A k \in Jobs \ {j} : ~(job[k].locked /\ job[k].rec = r)

Busy == {j \in Jobs : job[j].pc # "idle"}

----------------------------------------------------------------------------
(* GraphService.                                                           *)

\* update_user_profile: MERGE the user node, then per skill MERGE the skill
\* node named skill.title() and MERGE the CLAIMS relationship
update_user_profile(g, skills) ==
    [g EXCEPT !.user_node   = TRUE,
              !.skill_nodes = @ \cup {Title(s) : s \in skills},
              !.claims      = @ \cup {Title(s) : s \in skills}]

\* verify_skill: MATCH the CLAIMS relationship; for each row DELETE it and
\* CREATE a VERIFIED_IN relationship. No row, no write.
verify_skill(g, skill_name) ==
    IF g.user_node /\ skill_name \in g.skill_nodes /\ skill_name \in g.claims
    THEN [g EXCEPT !.claims      = @ \ {skill_name},
                   !.verified_in = [@ EXCEPT ![skill_name] = @ + 1]]
    ELSE g

----------------------------------------------------------------------------
(* OCRService() and extract_text: the results the call may return for a     *)
(* document. Each attempt builds its own OCRService: with no engine loaded  *)
(* the fixed mock results come back, with an engine the fragments read from *)
(* the document, or the empty list when the engine raises.                  *)

extract_text(doc) == {MockOcrResults, Documents[doc], <<>>}

----------------------------------------------------------------------------
(* _process_verification_async, step by step.                              *)

\* every value extract_text may return in the model
OcrOutcomes == {MockOcrResults, <<>>} \cup {Documents[d] : d \in DocIds}

\* the parsers' results on those values, computed once
ParsedId   == [o \in OcrOutcomes |-> parse_kenyan_id(o)]
ParsedCert == [o \in OcrOutcomes |-> parse_certificate(o)]

\* ParseInto that takes the mock results when the extractor returned nothing
ParseIntoMockOnEmpty(v, ocr_results) ==
    LET w    == [v EXCEPT !.ocr_data = Some(ocr_results)]
        used == IF ocr_results = <<>> THEN MockOcrResults ELSE ocr_results
    IN  IF v.document_type = NATIONAL_ID
        THEN [w EXCEPT !.extracted_name   = ParsedId[used].full_name,
                       !.extracted_serial = ParsedId[used].id_number]
        ELSE IF v.document_type \in {CERTIFICATE, DIPLOMA}
        THEN [w EXCEPT !.extracted_skill  = ParsedCert[used].skill,
                       !.extracted_serial = ParsedCert[used].serial]
        ELSE w

\* ParseInto with the id-number read under the certificate's key, which
\* parse_kenyan_id never sets
ParseIntoWrongKey(v, ocr_results) ==
    LET w == [v EXCEPT !.ocr_data = Some(ocr_results)]
    IN  IF v.document_type = NATIONAL_ID
        THEN [w EXCEPT !.extracted_name   = ParsedId[ocr_results].full_name,
                       !.extracted_serial = None]
        ELSE IF v.document_type \in {CERTIFICATE, DIPLOMA}
        THEN [w EXCEPT !.extracted_skill  = ParsedCert[ocr_results].skill,
                       !.extracted_serial = ParsedCert[ocr_results].serial]
        ELSE w

\* "Parse based on document type"
ParseInto(v, ocr_results) ==
    LET w == [v EXCEPT !.ocr_data = Some(ocr_results)]
    IN  IF v.document_type = NATIONAL_ID
        THEN [w EXCEPT !.extracted_name   = ParsedId[ocr_results].full_name,
                       !.extracted_serial = ParsedId[ocr_results].id_number]
        ELSE IF v.document_type \in {CERTIFICATE, DIPLOMA}
        THEN [w EXCEPT !.extracted_skill  = ParsedCert[ocr_results].skill,
                       !.extracted_serial = ParsedCert[ocr_results].serial]
        ELSE w

\* RejectionReasons with the check of the serial left out
RejectionReasonsSkipped(v) == <<>>

\* "Validation logic": the issues raised
RejectionReasons(v) ==
    IF Truthy(v.extracted_serial) THEN <<>> ELSE <<SERIAL_NOT_FOUND>>

\* "Name matching (if ID provided)": the user's name is set if none is on file
\* AdoptName without the test of the name on file: the last document wins
AdoptNameAlways(v, u) ==
    IF v.document_type = NATIONAL_ID /\ Truthy(v.extracted_name)
    THEN [u EXCEPT !.full_name = v.extracted_name]
    ELSE u

AdoptName(v, u) ==
    IF v.document_type = NATIONAL_ID /\ Truthy(v.extracted_name) /\ ~Truthy(u.full_name)
    THEN [u EXCEPT !.full_name = v.extracted_name]
    ELSE u

\* RewardedScore without the ceiling
RewardedScoreUnclamped(score) == score + Reward

\* min(100, user.trust_score + 10)
RewardedScore(score) == Min(MaxTrust, score + Reward)

\* "Decide verification outcome": the Verification object
DecideVerification(v) ==
    IF RejectionReasons(v) = <<>>
    THEN [v EXCEPT !.status = VERIFIED,
                   !.verified_by = Some("SYSTEM"),
                   !.trust_score_delta = Reward]
    ELSE [v EXCEPT !.status = REJECTED,
                   !.rejection_reason = Some(RejectionReasons(v))]

\* DecideUser with is_verified set by every verified document, whatever its type
DecideUserAnyType(v, u) ==
    IF RejectionReasons(v) = <<>>
    THEN [u EXCEPT !.trust_score = RewardedScore(@),
                   !.is_verified = TRUE]
    ELSE u

\* "Decide verification outcome": the User object
DecideUser(v, u) ==
    IF RejectionReasons(v) = <<>>
    THEN [u EXCEPT !.trust_score = RewardedScore(@),
                   !.is_verified = IF v.document_type = NATIONAL_ID THEN TRUE ELSE @]
    ELSE u

\* "Update Neo4j if skill verified"
DecideGraph(v, g) ==
    IF RejectionReasons(v) = <<>> /\ Truthy(v.extracted_skill)
    THEN verify_skill(g, v.extracted_skill[1])
    ELSE g

\* the task message reaches a worker (process_verification.delay, a duplicate
\* delivery, a re-invocation); the lowest free slot takes it
Deliver(j, r) ==
    /\ job[j].pc = "idle"
    /\ \A k \in Jobs : k < j => job[k].pc # "idle"
    /\ delivered < MaxDeliveries
    /\ job' = [job EXCEPT ![j] = [IdleJob EXCEPT !.pc = "queued", !.rec = r,
                                                  !.start = Some(user)]]
    /\ delivered' = delivered + 1
    /\ UNCHANGED <<vrec, user, graph, apiState>>

\* lines 52-61: SELECT the row; an unknown id returns {"error": ...}
Fetch(j) ==
    /\ job[j].pc = "queued"
    /\ IF job[j].rec \in DOMAIN vrec
       THEN job' = [job EXCEPT ![j].pc = "loaded",
                               ![j].v = Some(vrec[job[j].rec]),
                               ![j].base = Some(vrec[job[j].rec]),
                               ![j].rerun = (vrec[job[j].rec].status \in Terminal),
                               ![j].fresh = IF job[j].retries = 0
                                            THEN vrec[job[j].rec].status = PENDING
                                            ELSE @,
                               ![j].late  = IF job[j].retries = 0
                                            THEN vrec[job[j].rec].status = PENDING
                                            ELSE @]
       ELSE job' = [job EXCEPT ![j] = IdleJob]
    /\ UNCHANGED <<vrec, user, graph, delivered, apiState>>

\* MarkProcessing without its commit: PROCESSING waits in the session for the
\* next commit
MarkProcessingNoCommit(j) ==
    LET v == [job[j].v[1] EXCEPT !.status = PROCESSING]
    IN  /\ job[j].pc = "loaded"
        /\ job' = [job EXCEPT ![j].pc = "download", ![j].v = Some(v)]
        /\ UNCHANGED <<vrec, user, graph, delivered, apiState>>

\* lines 63-65: status = PROCESSING; commit
MarkProcessing(j) ==
    LET r == job[j].rec
        v == [job[j].v[1] EXCEPT !.status = PROCESSING]
    IN  /\ job[j].pc = "loaded"
        /\ v # job[j].base[1] => CanWrite(j, r)
        /\ vrec' = [vrec EXCEPT ![r] = CommitRow(@, v, job[j].base[1])]
        /\ job' = [job EXCEPT ![j].pc = "download", ![j].v = Some(v), ![j].base = Some(v)]
        /\ UNCHANGED <<user, graph, delivered, apiState>>

\* lines 67-75: get_object succeeds
DownloadOk(j) ==
    /\ job[j].pc = "download"
    /\ job' = [job EXCEPT ![j].pc = "extract"]
    /\ UNCHANGED <<vrec, user, graph, delivered, apiState>>

\* DownloadFail without its commit: the rejection stays in the session
DownloadFailNoCommit(j) ==
    LET v == [job[j].v[1] EXCEPT !.status = REJECTED,
                                 !.rejection_reason = Some(<<S3_FAILED>>)]
    IN  /\ job[j].pc = "download"
        /\ job' = [job EXCEPT ![j].pc = "committed", ![j].v = Some(v)]
        /\ UNCHANGED <<vrec, user, graph, delivered, apiState>>

\* lines 76-81: get_object raises; REJECTED with the storage reason; commit; return
DownloadFail(j) ==
    LET r == job[j].rec
        v == [job[j].v[1] EXCEPT !.status = REJECTED,
                                 !.rejection_reason = Some(<<S3_FAILED>>)]
    IN  /\ job[j].pc = "download"
        /\ CanWrite(j, r)
        /\ vrec' = [vrec EXCEPT ![r] = CommitRow(@, v, job[j].base[1])]
        /\ job' = [job EXCEPT ![j].pc = "committed", ![j].v = Some(v), ![j].base = Some(v),
                               ![j].fresh = FALSE]
        /\ UNCHANGED <<user, graph, delivered, apiState>>

\* lines 83-108: extract, parse, then SELECT the user; the SELECT flushes the
\* pending UPDATE of the verification row, which takes the row lock
ExtractAndFetchUser(j, ocr_results) ==
    LET r == job[j].rec
        v == ParseInto(job[j].v[1], ocr_results)
    IN  /\ job[j].pc = "extract"
        /\ v # job[j].base[1] => CanWrite(j, r)
        /\ job' = [job EXCEPT ![j].pc = "decide",
                               ![j].v = Some(v),
                               ![j].locked = (v # job[j].base[1]),
                               ![j].u = Some(user),
                               ![j].ubase = Some(user)]
        /\ UNCHANGED <<vrec, user, graph, delivered, apiState>>

\* lines 110-156: validate, adopt the name, decide; the graph write is its own
\* transaction and is visible at once
Decide(j) ==
    LET v == job[j].v[1]
        u == AdoptName(v, job[j].u[1])
    IN  /\ job[j].pc = "decide"
        /\ graph' = DecideGraph(v, graph)
        /\ job' = [job EXCEPT ![j].pc = "commit",
                               ![j].v = Some(DecideVerification(v)),
                               ![j].u = Some(DecideUser(v, u))]
        /\ UNCHANGED <<vrec, user, delivered, apiState>>

\* FinalCommit that commits the verification row alone: the user row is
\* left to a later commit that never comes
FinalCommitVerificationOnly(j) ==
    LET r == job[j].rec
    IN  /\ job[j].pc = "commit"
        /\ CanWrite(j, r)
        /\ vrec' = [vrec EXCEPT ![r] = CommitRow(@, job[j].v[1], job[j].base[1])]
        /\ job' = [job EXCEPT ![j].pc = "committed",
                               ![j].base = job[j].v,
                               ![j].locked = FALSE]
        /\ UNCHANGED <<user, graph, delivered, apiState>>

\* line 158: one commit for the verification row and the user row
FinalCommit(j) ==
    LET r == job[j].rec
        newUser == CommitRow(user, job[j].u[1], job[j].ubase[1])
    IN  /\ job[j].pc = "commit"
        /\ CanWrite(j, r)
        /\ vrec' = [vrec EXCEPT ![r] = CommitRow(@, job[j].v[1], job[j].base[1])]
        /\ user' = newUser
        /\ job' = [job EXCEPT ![j].pc = "committed",
                               ![j].base = job[j].v,
                               ![j].ubase = job[j].u,
                               ![j].locked = FALSE,
                               ![j].credited = (@ \/ newUser.trust_score > user.trust_score),
                               ![j].fresh = FALSE]
        /\ UNCHANGED <<graph, delivered, apiState>>

\* lines 160-164 and 39-41: the result is returned, the task is done
Return(j) ==
    /\ job[j].pc = "committed"
    /\ job' = [job EXCEPT ![j] = IdleJob]
    /\ UNCHANGED <<vrec, user, graph, delivered, apiState>>

\* Fail with the exception swallowed: nothing is re-queued
FailNoRetry(j) ==
    /\ job[j].pc \in {"queued", "loaded", "download", "extract", "decide", "commit", "committed"}
    /\ job' = [job EXCEPT ![j] = IdleJob]
    /\ UNCHANGED <<vrec, user, graph, delivered, apiState>>

\* lines 43-46: an exception leaves the coroutine (the session rolls back what
\* is not committed); self.retry re-queues the task while request.retries is
\* below max_retries and lets the exception out afterwards
Fail(j) ==
    /\ job[j].pc \in {"queued", "loaded", "download", "extract", "decide", "commit", "committed"}
    /\ IF job[j].retries < MaxRetries
       THEN job' = [job EXCEPT ![j] = [IdleJob EXCEPT !.pc = "queued",
                                                      !.rec = job[j].rec,
                                                      !.retries = job[j].retries + 1,
                                                      !.credited = job[j].credited,
                                                      !.fresh = job[j].fresh,
                                                      !.late = job[j].late /\ job[j].pc \notin {"queued", "loaded"},
                                                      !.start = job[j].start]]
       ELSE job' = [job EXCEPT ![j] = IdleJob]
    /\ UNCHANGED <<vrec, user, graph, delivered, apiState>>

\* the chat collaborator claims skills for the user
AddClaim(skills) ==
    /\ graph' = update_user_profile(graph, skills)
    /\ UNCHANGED <<vrec, user, job, delivered, apiState>>

\* a step of an attempt that raises nothing
RunStep(j) ==
    \/ Fetch(j)
    \/ MarkProcessing(j)
    \/ DownloadOk(j)
    \/ DownloadFail(j)
    \/ /\ job[j].pc = "extract"
       /\ \E o \in extract_text(job[j].v[1].doc) : ExtractAndFetchUser(j, o)
    \/ Decide(j)
    \/ FinalCommit(j)
    \/ Return(j)

JobStep(j) == RunStep(j) \/ Fail(j)

\* one consumer per record (the queue's one-message-one-consumer delivery): a
\* delivery starts when the one before it is done
DeliverInTurn(j, r) == Busy = {} /\ Deliver(j, r)

Next ==
    \/ \E j \in Jobs, r \in Records \cup {NoRecord} : DeliverInTurn(j, r)
    \/ \E j \in Jobs : JobStep(j)
    \/ \E skills \in SUBSET ClaimSkills : AddClaim(skills)

Spec == Init /\ [][Next]_vars

----------------------------------------------------------------------------
(* The admin endpoint next to the task.                                    *)

APPROVE == "approve"
REJECT  == "reject"
REJECTED_BY_ADMIN == "Rejected by admin"
ADMIN == "ADMIN"

\* the reason parameter of a call: absent, or a text
AdminReasons == {None, Some("Forged document")}

\* override_verification: any other action is refused with 400 and an unknown
\* id with 404 before anything is written; approve sets VERIFIED, the
\* admin as verified_by, the delta and the user's reward; reject sets
\* REJECTED, the reason (or the default text) and the admin; one commit
override_verification(r, action, reason) ==
    /\ overrides < MaxOverrides
    /\ action \in {APPROVE, REJECT}
    /\ r \in Records
    /\ IF action = APPROVE
       THEN /\ vrec' = [vrec EXCEPT ![r].status = VERIFIED,
                                    ![r].verified_by = Some(ADMIN),
                                    ![r].trust_score_delta = Reward]
            /\ user' = [user EXCEPT !.trust_score = RewardedScore(@)]
       ELSE /\ vrec' = [vrec EXCEPT ![r].status = REJECTED,
                                    ![r].rejection_reason =
                                        Some(<<IF reason = None THEN REJECTED_BY_ADMIN ELSE reason[1]>>),
                                    ![r].verified_by = Some(ADMIN)]
            /\ user' = user
    /\ overrides' = overrides + 1
    /\ UNCHANGED <<graph, job, delivered, validation, authState>>

\* deliveries in turn with attempts that raise nothing, and the admin's calls
\* at any point between their steps
NextAdmin ==
    \/ \E j \in Jobs, r \in Records : DeliverInTurn(j, r)
    \/ \E j \in Jobs : RunStep(j)
    \/ \E r \in Records, action \in {APPROVE, REJECT}, reason \in AdminReasons :
          override_verification(r, action, reason)

SpecAdmin == Init /\ [][NextAdmin]_vars

----------------------------------------------------------------------------
(* Deliveries that overlap.                                                *)

\* a message is delivered while another delivery is still running (a duplicate
\* delivery, a second worker); the attempts raise nothing
NextOverlap ==
    \/ \E j \in Jobs, r \in Records : Deliver(j, r)
    \/ \E j \in Jobs : RunStep(j)

SpecOverlap == Init /\ [][NextOverlap]_vars

----------------------------------------------------------------------------
(* Several records of one user.                                            *)

UserRecords == 1..NumUserRecords

\* what the user has uploaded: documents the pipeline accepts
UserUploads == {
    [document_type |-> "NATIONAL_ID", doc |-> 1],
    [document_type |-> "CERTIFICATE", doc |-> 3]
}

InitUser ==
    /\ vrec \in [UserRecords -> {NewVerification(up) : up \in UserUploads}]
    /\ user \in {NewUser(t, None) : t \in InitialScores}
    /\ graph = EmptyGraph
    /\ job = [j \in Jobs |-> IdleJob]
    /\ delivered = 0
    /\ overrides = 0
    /\ validation = None
    /\ NoLogin

\* upload_verification_document queues the task once for the record it has
\* just committed as PENDING; a free worker takes it
DeliverUpload(j, r) ==
    /\ job[j].pc = "idle"
    /\ \A k \in Jobs : k < j => job[k].pc # "idle"
    /\ vrec[r].status = PENDING
    /\ \A k \in Jobs : job[k].rec # r
    /\ job' = [job EXCEPT ![j] = [IdleJob EXCEPT !.pc = "queued", !.rec = r,
                                                  !.start = Some(user)]]
    /\ delivered' = delivered + 1
    /\ UNCHANGED <<vrec, user, graph, apiState>>

\* each record is processed once; the workers run side by side and raise nothing
NextUser ==
    \/ \E j \in Jobs, r \in UserRecords : DeliverUpload(j, r)
    \/ \E j \in Jobs : RunStep(j)

SpecUser == InitUser /\ [][NextUser]_vars

----------------------------------------------------------------------------
(* OCRService.validate_document.                                           *)

ID_NOT_FOUND     == "ID number not found"
CERT_NOT_FOUND   == "Certificate serial number not found"
NAME_MISMATCH    == "Name mismatch between ID and user profile"

\* Python's `needle in hay` on strings: a contiguous occurrence; the empty
\* string occurs in every string
Contains(hay, needle) ==
    \E i \in 1..(Len(hay) + 1) : HasAt(hay, i, needle)

\* dict.get(key, ""): the text, or the empty string when the key is absent
GetOrEmpty(o) == IF o = None THEN <<>> ELSE o[1]

\* names validate_document may be called with (user_name)
JOHN_MWANGI_KARIUKI == MockOcrResults[1]
UserNames ==
    {None, Some(JOHN_KARIUKI), Some(JOHN_MWANGI_KARIUKI),
     Some(<<"K","a","r","i","u","k","i">>)}

validate_document(parsed_id, parsed_cert, user_name) ==
    LET id_name    == ToUpper(GetOrEmpty(parsed_id.full_name))
        name_match == /\ Truthy(user_name)
                      /\ \/ Contains(id_name, ToUpper(user_name[1]))
                         \/ Contains(ToUpper(user_name[1]), id_name)
        issues     == (IF Truthy(parsed_id.id_number) THEN <<>> ELSE <<ID_NOT_FOUND>>)
                      \o (IF Truthy(parsed_cert.serial) THEN <<>> ELSE <<CERT_NOT_FOUND>>)
                      \o (IF ~name_match /\ Truthy(user_name) THEN <<NAME_MISMATCH>> ELSE <<>>)
    IN  [name_match |-> name_match,
         confidence |-> IF name_match THEN 85 ELSE 0,
         issues     |-> issues]

\* a call of validate_document with what the parsers made of two OCR results
Validate(id_results, cert_results, user_name) ==
    /\ validation' = Some([parsed_id   |-> ParsedId[id_results],
                           parsed_cert |-> ParsedCert[cert_results],
                           user_name   |-> user_name,
                           result      |-> validate_document(ParsedId[id_results],
                                                              ParsedCert[cert_results],
                                                              user_name)])
    /\ UNCHANGED <<vrec, user, graph, job, delivered, overrides, authState>>

NextValidate ==
    \E id_results \in OcrOutcomes, cert_results \in OcrOutcomes, user_name \in UserNames :
        Validate(id_results, cert_results, user_name)

SpecValidate == Init /\ [][NextValidate]_vars

----------------------------------------------------------------------------
(* OTP login: POST /login and POST /verify (backend/app/api/auth.py). Each  *)
(* await of a Redis command is one step; between two steps of a request any *)
(* step of another request may run. The otp_rate key is followed through    *)
(* one lifetime (its hour does not elapse); the two session keys may expire.*)
(* SpecLogin runs the /login requests of one phone, SpecVerify the /verify  *)
(* requests for the session of one answered login.                          *)

\* line 51: the request count refuses the login
RateLimited(request_count) ==
    request_count # None /\ request_count[1] >= MaxOtpRequests

\* line 111: the attempt count refuses the verification
AttemptsExceededNever(attempts) == FALSE

AttemptsExceeded(attempts) ==
    attempts # None /\ attempts[1].n >= OTP_MAX_ATTEMPTS

\* Redis INCR: a missing key counts from 0 and the new key has no expiry
Incr(value) ==
    IF value = None THEN Some([n |-> 1, ttl |-> FALSE])
    ELSE Some([value[1] EXCEPT !.n = @ + 1])

\* the API process takes a request into its first free coroutine slot
FreeSlot(q) ==
    /\ req[q].pc = "idle"
    /\ \A k \in Requests : k < q => req[k].pc # "idle"

\* the reply of a request: its arguments and the HTTP status
Reply(request, code) ==
    Some([op |-> request.op, session |-> request.session, phone |-> request.phone,
          otp |-> request.otp, late |-> request.late, status |-> code])

\* login, lines 45-55: read the request count; 429 when it has reached 3
LoginStart(q) ==
    /\ FreeSlot(q)
    /\ replies.logins < MaxLogins
    /\ LET request_count == redis.rate
           request == [IdleReq EXCEPT !.op = "login", !.pc = "allowed",
                                      !.seen = request_count]
       IN  IF RateLimited(request_count)
           THEN /\ req' = req
                /\ replies' = [replies EXCEPT !.logins = @ + 1,
                                              !.last = Reply(request, 429)]
           ELSE /\ req' = [req EXCEPT ![q] = request]
                /\ replies' = [replies EXCEPT !.logins = @ + 1]
    /\ UNCHANGED <<vrec, user, graph, job, delivered, overrides, validation, redis>>

\* login, lines 57-64: generate the OTP and the session id, store phone:otp
LoginStoreOtp(q, otp) ==
    /\ req[q].op = "login" /\ req[q].pc = "allowed"
    /\ LET session_id == replies.sessions + 1
       IN  /\ redis' = [redis EXCEPT !.otp[session_id] =
                            Some([phone |-> req[q].phone, otp |-> otp])]
           /\ req' = [req EXCEPT ![q].pc = "stored", ![q].session = session_id,
                                 ![q].otp = Some(otp)]
           /\ replies' = [replies EXCEPT !.sessions = session_id]
    /\ UNCHANGED <<vrec, user, graph, job, delivered, overrides, validation>>

\* login, lines 66-68: the attempt counter of the session starts at "0"
LoginStoreAttempts(q) ==
    /\ req[q].op = "login" /\ req[q].pc = "stored"
    /\ redis' = [redis EXCEPT !.attempts[req[q].session] =
                     Some([n |-> 0, ttl |-> TRUE])]
    /\ req' = [req EXCEPT ![q].pc = "counted"]
    /\ UNCHANGED <<vrec, user, graph, job, delivered, overrides, validation, replies>>

\* login, lines 70-88: INCR the request count when one was read, else start
\* it at "1"; the OTP goes out and the LoginResponse is returned
LoginUpdateRate(q) ==
    /\ req[q].op = "login" /\ req[q].pc = "counted"
    /\ redis' = [redis EXCEPT !.rate =
                     IF req[q].seen # None
                     THEN (IF @ = None THEN Some(1) ELSE Some(@[1] + 1))
                     ELSE Some(1)]
    /\ req' = [req EXCEPT ![q] = IdleReq]
    /\ replies' = [replies EXCEPT !.issued = @ \cup {req[q].session},
                                  !.last = Reply(req[q], 200)]
    /\ UNCHANGED <<vrec, user, graph, job, delivered, overrides, validation>>

\* verify_otp, lines 103-115: read the attempt count; 403 when it has
\* reached OTP_MAX_ATTEMPTS
VerifyStart(q, session_id, phone, otp) ==
    /\ FreeSlot(q)
    /\ replies.verifies < MaxVerifies
    /\ session_id \in replies.issued
    /\ LET attempts == redis.attempts[session_id]
           request  == [IdleReq EXCEPT !.op = "verify", !.session = session_id,
                                       !.phone = phone, !.otp = Some(otp),
                                       !.seen = attempts,
                                       !.late = replies.failed[session_id] >= OTP_MAX_ATTEMPTS]
       IN  IF AttemptsExceeded(attempts)
           THEN /\ req' = req
                /\ replies' = [replies EXCEPT !.verifies = @ + 1,
                                              !.last = Reply(request, 403)]
           ELSE /\ req' = [req EXCEPT ![q] = [request EXCEPT !.pc = "checked"]]
                /\ replies' = [replies EXCEPT !.verifies = @ + 1]
    /\ UNCHANGED <<vrec, user, graph, job, delivered, overrides, validation, redis>>

\* verify_otp, lines 117-143: read otp:{session_id}; 400 when it is gone;
\* compare the phone, then the OTP
VerifyGetOtp(q) ==
    /\ req[q].op = "verify" /\ req[q].pc = "checked"
    /\ LET stored_data == redis.otp[req[q].session]
       IN  IF stored_data = None
           THEN /\ req' = [req EXCEPT ![q] = IdleReq]
                /\ replies' = [replies EXCEPT !.last = Reply(req[q], 400)]
           ELSE /\ req' = [req EXCEPT ![q].pc =
                        IF stored_data[1].phone # req[q].phone THEN "phone_mismatch"
                        ELSE IF stored_data[1].otp # req[q].otp[1] THEN "otp_mismatch"
                        ELSE "matched"]
                /\ replies' = replies
    /\ UNCHANGED <<vrec, user, graph, job, delivered, overrides, validation, redis>>

\* verify_otp, lines 131-135 and 139-143: INCR the attempt count and refuse
VerifyRecordFailure(q) ==
    /\ req[q].op = "verify" /\ req[q].pc \in {"phone_mismatch", "otp_mismatch"}
    /\ redis' = [redis EXCEPT !.attempts[req[q].session] = Incr(@)]
    /\ req' = [req EXCEPT ![q] = IdleReq]
    /\ replies' = [replies EXCEPT !.failed[req[q].session] = @ + 1,
                                  !.last = Reply(req[q], IF req[q].pc = "phone_mismatch"
                                                         THEN 400 ELSE 401)]
    /\ UNCHANGED <<vrec, user, graph, job, delivered, overrides, validation>>

\* verify_otp, line 146: delete otp:{session_id}
VerifyDeleteOtp(q) ==
    /\ req[q].op = "verify" /\ req[q].pc = "matched"
    /\ redis' = [redis EXCEPT !.otp[req[q].session] = None]
    /\ req' = [req EXCEPT ![q].pc = "used"]
    /\ UNCHANGED <<vrec, user, graph, job, delivered, overrides, validation, replies>>

\* verify_otp, lines 147-203: delete otp_attempts:{session_id}, find or
\* create the user and return the tokens
VerifyIssueTokens(q) ==
    /\ req[q].op = "verify" /\ req[q].pc = "used"
    /\ redis' = [redis EXCEPT !.attempts[req[q].session] = None]
    /\ req' = [req EXCEPT ![q] = IdleReq]
    /\ replies' = [replies EXCEPT !.tokens[req[q].session] = @ + 1,
                                  !.last = Reply(req[q], 200)]
    /\ UNCHANGED <<vrec, user, graph, job, delivered, overrides, validation>>

\* the five minutes of otp:{session_id} elapse
ExpireOtp(s) ==
    /\ redis.otp[s] # None
    /\ redis' = [redis EXCEPT !.otp[s] = None]
    /\ UNCHANGED <<vrec, user, graph, job, delivered, overrides, validation, req, replies>>

\* the five minutes of otp_attempts:{session_id} elapse: it was set after
\* the OTP with the same expiry, so never before the OTP is gone
ExpireAttempts(s) ==
    /\ redis.attempts[s] # None
    /\ redis.attempts[s][1].ttl
    /\ redis.otp[s] = None
    /\ redis' = [redis EXCEPT !.attempts[s] = None]
    /\ UNCHANGED <<vrec, user, graph, job, delivered, overrides, validation, req, replies>>

\* no verification uploaded, no login so far
InitLogin ==
    /\ vrec = <<>>
    /\ user = NewUser(0, None)
    /\ graph = EmptyGraph
    /\ job = [j \in Jobs |-> IdleJob]
    /\ delivered = 0
    /\ overrides = 0
    /\ validation = None
    /\ NoLogin

\* /login requests for one phone, overlapping in the API process
NextLogin ==
    \/ \E q \in Requests : LoginStart(q)
    \/ \E q \in Requests, otp \in Otps : LoginStoreOtp(q, otp)
    \/ \E q \in Requests : LoginStoreAttempts(q)
    \/ \E q \in Requests : LoginUpdateRate(q)

SpecLogin == InitLogin /\ [][NextLogin]_vars

\* one /login has been answered: its session holds phone:otp and "0"
\* attempts, the request count of the phone is "1"
LoggedIn(otp) ==
    LET request == [IdleReq EXCEPT !.op = "login", !.session = 1, !.otp = Some(otp)]
    IN  /\ redis = [EmptyRedis EXCEPT !.otp[1] = Some([phone |-> PHONE, otp |-> otp]),
                                      !.attempts[1] = Some([n |-> 0, ttl |-> TRUE]),
                                      !.rate = Some(1)]
        /\ req = [q \in Requests |-> IdleReq]
        /\ replies = [NoReplies EXCEPT !.logins = 1, !.sessions = 1, !.issued = {1},
                                       !.last = Reply(request, 200)]

InitVerify ==
    /\ vrec = <<>>
    /\ user = NewUser(0, None)
    /\ graph = EmptyGraph
    /\ job = [j \in Jobs |-> IdleJob]
    /\ delivered = 0
    /\ overrides = 0
    /\ validation = None
    /\ \E otp \in Otps : LoggedIn(otp)

\* /verify requests for the session of that login, overlapping in the API
\* process, while the keys of the session run towards their expiry
NextVerify ==
    \/ \E q \in Requests, s \in VerifySessions, phone \in Phones, otp \in Otps :
           VerifyStart(q, s, phone, otp)
    \/ \E q \in Requests : VerifyGetOtp(q)
    \/ \E q \in Requests : VerifyRecordFailure(q)
    \/ \E q \in Requests : VerifyDeleteOtp(q)
    \/ \E q \in Requests : VerifyIssueTokens(q)
    \/ \E s \in VerifySessions : ExpireOtp(s)
    \/ \E s \in VerifySessions : ExpireAttempts(s)

SpecVerify == InitVerify /\ [][NextVerify]_vars

----------------------------------------------------------------------------
(* Properties.                                                             *)

\* the step is the final commit of job j (line 158)
IsFinalCommit(j) == job[j].pc = "commit" /\ job'[j].pc = "committed"

\* the step is the rejecting commit of job j after a failed download (line 80)
IsDownloadFail(j) == job[j].pc = "download" /\ job'[j].pc = "committed"

\* the step is job j's decision with a call of verify_skill (lines 144-149)
IsPromotion(j) ==
    /\ job[j].pc = "decide" /\ job'[j].pc = "commit"
    /\ RejectionReasons(job[j].v[1]) = <<>>
    /\ Truthy(job[j].v[1].extracted_skill)

\* the parser the record's type selects finds no id-number / serial in the
\* OCR results of the attempt (LICENSE and TRANSCRIPT select no parser)
NothingExtracted(v) ==
    IF v.document_type = NATIONAL_ID THEN ParsedId[v.ocr_data[1]].id_number = None
    ELSE IF v.document_type \in {CERTIFICATE, DIPLOMA} THEN ParsedCert[v.ocr_data[1]].serial = None
    ELSE TRUE

\* the issue is one of the "; "-separated parts of the reason
ReasonContains(reason, issue) ==
    reason # None /\ \E i \in 1..Len(reason[1]) : reason[1][i] = issue

\* C1: a run of process_verification on a record it finds VERIFIED or REJECTED
\* changes neither the user's trust score, nor the record's trust_score_delta,
\* nor the graph.
C1_RerunOnTerminalChangesNothing ==
    [][\A j \in Jobs :
          (job[j].rerun /\ job'[j] # job[j])
              => /\ user'.trust_score = user.trust_score
                 /\ vrec'[job[j].rec].trust_score_delta = vrec[job[j].rec].trust_score_delta
                 /\ graph' = graph]_vars

\* C2: every change of a record's status is PENDING->PROCESSING,
\* PROCESSING->VERIFIED or PROCESSING->REJECTED; a VERIFIED or REJECTED record
\* never changes status again.
AllowedTransitions ==
    {<<PENDING, PROCESSING>>, <<PROCESSING, VERIFIED>>, <<PROCESSING, REJECTED>>}

C2_StatusTransitionsOrdered ==
    [][\A r \in Records :
          vrec'[r].status # vrec[r].status
              => <<vrec[r].status, vrec'[r].status>> \in AllowedTransitions]_vars

\* C3: over the attempts of one delivery (the first run and the dispatcher's
\* retries) the user's trust score is raised at most once: once a commit of the
\* delivery has raised it, no later step of the delivery raises it again.
C3_RetriesCreditOnce ==
    [][\A j \in Jobs :
          job[j].credited => user'.trust_score <= user.trust_score]_vars

\* C4: a record becomes VERIFIED in the committed store in the very step in
\* which the user's committed trust score becomes min(100, score + 10) and the
\* record's delta 10, and the committed trust score changes in no other step.
C4_VerifiedWithRewardInOneCommit ==
    [][/\ \A r \in Records :
            (vrec'[r].status = VERIFIED /\ vrec[r].status # VERIFIED)
                => /\ user'.trust_score = Min(MaxTrust, user.trust_score + Reward)
                   /\ vrec'[r].trust_score_delta = Reward
       /\ user'.trust_score # user.trust_score
            => \E r \in Records : vrec'[r].status = VERIFIED /\ vrec[r].status # VERIFIED]_vars

\* C4 witness: a commit has made a record VERIFIED and raised the score from 0 to 10
C4_Witness ==
    \E j \in Jobs :
        /\ job[j].pc = "committed" /\ job[j].credited
        /\ vrec[job[j].rec].status = VERIFIED
        /\ user.trust_score = Reward

\* C5: the user's trust score, committed or held in a session, is in 0..100
\* in every reachable state.
C5_TrustScoreInRange ==
    /\ user.trust_score \in 0..MaxTrust
    /\ \A j \in Jobs : job[j].u # None => job[j].u[1].trust_score \in 0..MaxTrust

\* C5 witness: a rewarding commit has taken the score from 95 to the ceiling
C5_Witness ==
    \E j \in Jobs :
        /\ job[j].pc = "committed" /\ job[j].credited
        /\ user.trust_score = MaxTrust

\* C6: the final commit of a job for a NATIONAL_ID record whose OCR results hold
\* an 8-digit id-number leaves the record VERIFIED with trust_score_delta 10 and
\* the user with score min(100, previous score + 10) and is_verified true.
C6_ValidNationalIdVerified ==
    [][\A j \in Jobs :
          (/\ IsFinalCommit(j)
           /\ job[j].v[1].document_type = NATIONAL_ID
           /\ ParsedId[job[j].v[1].ocr_data[1]].id_number # None)
              => /\ vrec'[job[j].rec].status = VERIFIED
                 /\ vrec'[job[j].rec].trust_score_delta = Reward
                 /\ user'.trust_score = Min(MaxTrust, user.trust_score + Reward)
                 /\ user'.is_verified]_vars

\* C6 witness: a NATIONAL_ID record is VERIFIED and its user, who started at 0,
\* holds 10 and is verified
C6_Witness ==
    \E j \in Jobs :
        /\ job[j].pc = "committed"
        /\ vrec[job[j].rec].document_type = NATIONAL_ID
        /\ vrec[job[j].rec].status = VERIFIED
        /\ vrec[job[j].rec].extracted_serial = Some(<<"1","2","3","4","5","6","7","8">>)
        /\ user.is_verified
        /\ user.trust_score = Reward

C8_DownloadFailureRejects ==
    [][\A j \in Jobs :
          IsDownloadFail(j)
              => /\ vrec'[job[j].rec].status = REJECTED
                 /\ vrec'[job[j].rec].rejection_reason = Some(<<S3_FAILED>>)
                 /\ vrec'[job[j].rec].trust_score_delta = vrec[job[j].rec].trust_score_delta
                 /\ user' = user
                 /\ graph' = graph]_vars

\* C8 witness: a first run has ended in the storage rejection, delta still 0
C8_Witness ==
    \E j \in Jobs :
        /\ job[j].pc = "committed" /\ ~job[j].rerun
        /\ job[j].v[1].ocr_data = None
        /\ vrec[job[j].rec].status = REJECTED
        /\ vrec[job[j].rec].rejection_reason = Some(<<S3_FAILED>>)
        /\ vrec[job[j].rec].trust_score_delta = 0

\* C9: when the pipeline calls verify_skill for a skill and the call is made
\* once more, exactly one VERIFIED_IN relationship joins the user and the
\* skill, whether or not a CLAIMS relationship existed before the first call.
C9_PromotionTwiceOneEdge ==
    [][\A j \in Jobs :
          IsPromotion(j)
              => LET s == job[j].v[1].extracted_skill[1]
                 IN  verify_skill(graph', s).verified_in[s] = 1]_vars

\* C10: a call of verify_skill by the pipeline leaves a VERIFIED_IN
\* relationship from the user to the skill node, which exists afterwards, also
\* when no CLAIMS relationship existed.
C10_PromotionWithoutClaim ==
    [][\A j \in Jobs :
          IsPromotion(j)
              => LET s == job[j].v[1].extracted_skill[1]
                 IN  /\ s \in graph'.skill_nodes
                     /\ graph'.verified_in[s] >= 1]_vars

C12_AtMostThreeAttempts ==
    \A j \in Jobs : job[j].pc \notin {"idle", "queued"} => job[j].retries + 1 <= 3

\* the positions of an attempt between the PROCESSING commit and its terminal commit
MidFlow == {"download", "extract", "decide", "commit"}

\* the step is the failure of job j's last attempt, after which nothing is scheduled
IsAbandon(j) ==
    /\ job[j].retries = MaxRetries
    /\ job[j].pc \in MidFlow
    /\ job'[j].pc = "idle"

\* the record is PROCESSING with no delta and no reason, the user row is the
\* one the delivery found
AbandonedUntouched(j) ==
    /\ vrec'[job[j].rec].status = PROCESSING
    /\ vrec'[job[j].rec].trust_score_delta = 0
    /\ vrec'[job[j].rec].rejection_reason = None
    /\ user' = job[j].start[1]

C14_DeltaOnlyWhenVerified ==
    \A r \in Records : vrec[r].trust_score_delta # 0 => vrec[r].status = VERIFIED

\* C15: in every reachable state, under process_verification runs and
\* override_verification calls, a record's rejection_reason is non-empty only
\* if its status is REJECTED.
C15_ReasonOnlyWhenRejected ==
    \A r \in Records : vrec[r].rejection_reason # None => vrec[r].status = REJECTED

\* C16: while two deliveries for the same record are in progress together,
\* the user's trust score is at most 10 above the score the earlier of the two
\* found: the record is credited once.
C16_OverlapCreditsOnce ==
    \A j, k \in Jobs :
        (/\ j # k
         /\ job[j].pc # "idle" /\ job[k].pc # "idle"
         /\ job[j].rec = job[k].rec)
            => user.trust_score
                 <= Min(job[j].start[1].trust_score, job[k].start[1].trust_score) + Reward

\* C17: validate_document, called with a parsed ID whose full_name is
\* 'JOHN MWANGI KARIUKI' and whose id_number is '12345678' and with the user
\* name 'John Kariuki', returns name_match true and no name-mismatch issue.
C17_JohnKariukiMatches ==
    (/\ validation # None
     /\ validation[1].parsed_id.full_name = Some(JOHN_MWANGI_KARIUKI)
     /\ validation[1].parsed_id.id_number = Some(<<"1","2","3","4","5","6","7","8">>)
     /\ validation[1].user_name = Some(JOHN_KARIUKI))
        => /\ validation[1].result.name_match
           /\ \A i \in 1..Len(validation[1].result.issues) :
                 validation[1].result.issues[i] # NAME_MISMATCH

\* no fragment of the OCR results holds a digit
NoDigit(ocr_results) ==
    \A i \in 1..Len(ocr_results) :
        \A k \in 1..Len(ocr_results[i]) : ocr_results[i][k] \notin Digits

\* C18: for a CERTIFICATE record whose extracted text holds no digit,
\* parse_certificate yields no serial and the final commit leaves the record
\* REJECTED and the user's trust score unchanged.
C18_NoDigitCertificateRejected ==
    [][\A j \in Jobs :
          (/\ IsFinalCommit(j)
           /\ job[j].v[1].document_type = CERTIFICATE
           /\ NoDigit(job[j].v[1].ocr_data[1]))
              => /\ ParsedCert[job[j].v[1].ocr_data[1]].serial = None
                 /\ vrec'[job[j].rec].status = REJECTED
                 /\ user'.trust_score = user.trust_score]_vars

\* C19: the committed is_verified flag changes only in the final commit of an
\* attempt on a NATIONAL_ID record that leaves the record VERIFIED, and it
\* changes to true; no other step of any job changes it.
C19_IsVerifiedOnlyByNationalId ==
    [][user'.is_verified # user.is_verified
          => \E j \in Jobs :
                /\ IsFinalCommit(j)
                /\ job[j].v[1].document_type = NATIONAL_ID
                /\ vrec'[job[j].rec].status = VERIFIED
                /\ user'.is_verified]_vars

\* C19 witness: a NATIONAL_ID job has verified a user who was not verified when
\* it started and who held 95
C19_Witness ==
    \E j \in Jobs :
        /\ job[j].pc = "committed"
        /\ vrec[job[j].rec].document_type = NATIONAL_ID
        /\ vrec[job[j].rec].status = VERIFIED
        /\ ~job[j].start[1].is_verified
        /\ job[j].start[1].trust_score = 95
        /\ user.is_verified

\* C20: the committed full_name changes only when it was empty, in the final
\* commit of an attempt on a NATIONAL_ID record, and to the name extracted
\* from the document; a name on file is never changed.
C20_FirstNameWins ==
    [][user'.full_name # user.full_name
          => /\ ~Truthy(user.full_name)
             /\ \E j \in Jobs :
                   /\ IsFinalCommit(j)
                   /\ job[j].v[1].document_type = NATIONAL_ID
                   /\ Truthy(job[j].v[1].extracted_name)
                   /\ user'.full_name = job[j].v[1].extracted_name]_vars

\* C20 witness: a user without a name has got the name of the ID document, and
\* a later delivery that reads other text has left it alone
C20_Witness ==
    \E j \in Jobs :
        /\ job[j].pc = "committed"
        /\ job[j].start[1].full_name = Some(JOHN_MWANGI_KARIUKI)
        /\ job[j].v[1].extracted_name # None
        /\ job[j].v[1].extracted_name # Some(JOHN_MWANGI_KARIUKI)
        /\ user.full_name = Some(JOHN_MWANGI_KARIUKI)

\* C21: the final commit of a job for a LICENSE or TRANSCRIPT record whose OCR
\* results hold a serial parse_certificate finds leaves the record with that
\* serial as extracted_serial and with status VERIFIED.
C21_LicenseParsedLikeCertificate ==
    [][\A j \in Jobs :
          (/\ IsFinalCommit(j)
           /\ job[j].v[1].document_type \in {LICENSE, TRANSCRIPT}
           /\ Truthy(ParsedCert[job[j].v[1].ocr_data[1]].serial))
              => /\ vrec'[job[j].rec].extracted_serial = ParsedCert[job[j].v[1].ocr_data[1]].serial
                 /\ vrec'[job[j].rec].status = VERIFIED]_vars

\* C22: the final commit of an attempt that leaves the record REJECTED leaves
\* the user row (trust_score, is_verified, full_name) as it was.
C22_RejectedLeavesUser ==
    [][\A j \in Jobs :
          (IsFinalCommit(j) /\ vrec'[job[j].rec].status = REJECTED) => user' = user]_vars

\* C23: when extract_text returned the empty list, the attempt goes on to its
\* final commit, which leaves the record REJECTED with a non-empty reason and
\* with extracted_name, extracted_serial and extracted_skill absent.
C23_EmptyExtractionRejected ==
    [][\A j \in Jobs :
          (IsFinalCommit(j) /\ job[j].v[1].ocr_data = Some(<<>>))
              => /\ vrec'[job[j].rec].status = REJECTED
                 /\ ReasonContains(vrec'[job[j].rec].rejection_reason, SERIAL_NOT_FOUND)
                 /\ vrec'[job[j].rec].extracted_name = None
                 /\ vrec'[job[j].rec].extracted_serial = None
                 /\ vrec'[job[j].rec].extracted_skill = None]_vars

\* C23 witness: the attempt that got the empty list has committed the rejection
\* without a retry
C23_Witness ==
    \E j \in Jobs :
        /\ job[j].pc = "committed" /\ job[j].retries = 0
        /\ vrec[job[j].rec].ocr_data = Some(<<>>)
        /\ vrec[job[j].rec].status = REJECTED

\* the step is an exception raised where job j, its validation passed, calls
\* verify_skill
IsPromotionFailure(j) ==
    /\ job[j].pc = "decide" /\ job'[j].pc \in {"queued", "idle"}
    /\ RejectionReasons(job[j].v[1]) = <<>>
    /\ Truthy(job[j].v[1].extracted_skill)

\* C24: when verify_skill raises in a job whose validation passed, nothing of
\* the decision is committed: the record stays PROCESSING, the user row keeps
\* the values the attempt loaded, the graph is as before; and the task is
\* queued again for a retry (as long as max_retries allows one).
C24_PromotionFailureRollsBack ==
    [][\A j \in Jobs :
          IsPromotionFailure(j)
              => /\ vrec' = vrec
                 /\ vrec[job[j].rec].status = PROCESSING
                 /\ user' = user /\ user = job[j].ubase[1]
                 /\ graph' = graph
                 /\ job[j].retries < MaxRetries
                      => /\ job'[j].pc = "queued"
                         /\ job'[j].rec = job[j].rec
                         /\ job'[j].retries = job[j].retries + 1]_vars

\* C24 witness: a first attempt whose validation passed is about to call
\* verify_skill for a claimed skill; record and user are still uncommitted
C24_Witness ==
    \E j \in Jobs :
        /\ job[j].pc = "decide" /\ job[j].retries = 0
        /\ RejectionReasons(job[j].v[1]) = <<>>
        /\ Truthy(job[j].v[1].extracted_skill)
        /\ job[j].v[1].extracted_skill[1] \in graph.claims
        /\ vrec[job[j].rec].status = PROCESSING

\* C25: under any interleaving of jobs for different records of one user, no
\* commit lowers the committed trust score.
C25_TrustScoreNeverDecreases ==
    [][user'.trust_score >= user.trust_score]_vars

\* C26: when two jobs for different records of one user, delivered on the
\* same user row, have both committed VERIFIED side by side, the user's trust
\* score is min(100, score at their start + 20).
C26_NoLostIncrement ==
    \A j, k \in Jobs :
        (/\ j # k
         /\ job[j].pc = "committed" /\ job[k].pc = "committed"
         /\ job[j].rec # job[k].rec
         /\ job[j].start = job[k].start
         /\ vrec[job[j].rec].status = VERIFIED
         /\ vrec[job[k].rec].status = VERIFIED)
            => user.trust_score = Min(MaxTrust, job[j].start[1].trust_score + 2 * Reward)

\* C27: a call of override_verification made when every record is already
\* VERIFIED (by SYSTEM or by an admin) does not raise the user's trust score:
\* a record contributes its +10 once.
C27_ApproveVerifiedAddsNothing ==
    [][(/\ overrides' # overrides
        /\ \A r \in Records : vrec[r].status = VERIFIED)
          => user'.trust_score = user.trust_score]_vars

\* C28: an OTP is single-use: whatever the order of the steps of the /verify
\* requests for one login session, at most one of them returns tokens.
C28_OtpSingleUse ==
    \A s \in Sessions : replies.tokens[s] <= 1

\* C29: a /verify request that arrives when OTP_MAX_ATTEMPTS failures have been
\* recorded for its session never passes the comparison and is never answered
\* with tokens, whatever phone and OTP it carries.
C29_RefusedAfterMaxAttempts ==
    /\ \A q \in Requests : req[q].late => req[q].pc \notin {"matched", "used"}
    /\ (replies.last # None /\ replies.last[1].late) => replies.last[1].status # 200

\* C29 witness: five failures are recorded for the session, its OTP is still
\* stored, and a request with the stored phone and OTP has been refused with 403
C29_Witness ==
    /\ replies.last # None
    /\ replies.last[1].op = "verify"
    /\ replies.last[1].late
    /\ replies.last[1].status = 403
    /\ replies.failed[replies.last[1].session] >= OTP_MAX_ATTEMPTS
    /\ redis.otp[replies.last[1].session] =
           Some([phone |-> replies.last[1].phone, otp |-> replies.last[1].otp[1]])

\* C30: whatever the order of the steps of the /login requests of one phone, at
\* most 3 of them are answered with an OTP while the request count of the
\* phone lives.
C30_AtMostThreeOtps ==
    Cardinality(replies.issued) <= MaxOtpRequests

====
